---- MODULE Spec2Model ----
(***************************************************************************)
(* Model of src/main.rs of system-monitor: the control loop run_app, the   *)
(* refresh gate App::refresh, the tab switch, and the computations made    *)
(* while a frame is drawn (gauges, network and storage panels, process     *)
(* ranking, directory size, name truncation).                              *)
(*                                                                         *)
(* Time is counted in units of 100 ms of the monotonic clock.              *)
(* Strings are sequences of characters; TwoByteChar stands for any         *)
(* character whose UTF-8 encoding takes two bytes, every other character   *)
(* takes one byte.                                                         *)
(* u64 arithmetic is scaled to U64Width bits.                              *)
(*                                                                         *)
(* State:                                                                  *)
(*   pc              position of run_app: "refresh", "draw", "poll", "done" *)
(*   now             the monotonic clock                                   *)
(*   last_update     App::last_update                                      *)
(*   tab_index       App::tab_index                                        *)
(*   res             "running", or how run_app ended: "Ok", "Err", "panic" *)
(*   last_event      outcome of the last poll/read of run_app              *)
(*   app             App::system, disks, components, networks, each with   *)
(*                   the stamp (tick and instant) of its last sampling     *)
(*   home            what dirs::home_dir() and the file system hold        *)
(*   frame           the last frame drawn; stamps tells where each shown   *)
(*                   value was sampled, homedir.scan what                  *)
(*                   calculate_directory_size returned                     *)
(*   requeries       log of the runs of the re-query block of App::refresh *)
(*   overflow_checks whether the build panics on integer overflow (debug   *)
(*                   profile) or wraps (release profile)                   *)
(***************************************************************************)
EXTENDS Integers, Sequences, FiniteSets, TLC

VARIABLES pc, now, last_update, tab_index, res, last_event,
          app, home, frame, requeries, overflow_checks

vars == <<pc, now, last_update, tab_index, res, last_event,
          app, home, frame, requeries, overflow_checks>>

----------------------------------------------------------------------------
(* Bounds of the model *)

MaxTime == 21
MaxNameChars == 11
MaxIfaces == 5
MaxDisks == 5
MaxProcs == 17
MaxPattern == 3
MaxEntries == 3
MaxMem == 5
U64Width == 16

(* Program constants *)

RefreshInterval == 10
PollTimeout == 1
TabCount == 2
TopN == 15
MaxDetail == 4
IfaceNameMax == 10
DiskNameMax == 20
HomePathMax == 35
ProcNameMax == 25
Kilo == 1024
GaugeMax == 100

U64Mod == 2 ^ U64Width

Panic == [kind |-> "panic"]

IsPanic(v) == v.kind = "panic"

----------------------------------------------------------------------------
(* Strings *)

TwoByteChar == "e_acute"

Utf8Len(c) == IF c = TwoByteChar THEN 2 ELSE 1

RECURSIVE ByteLen(_)
ByteLen(s) == IF s = <<>> THEN 0 ELSE Utf8Len(Head(s)) + ByteLen(Tail(s))

Take(s, n) == SubSeq(s, 1, IF n < Len(s) THEN n ELSE Len(s))

IsCharBoundary(s, n) == \E k \in 0..Len(s) : ByteLen(Take(s, k)) = n

BytePrefix(s, n) ==
    Take(s, CHOOSE k \in 0..Len(s) : ByteLen(Take(s, k)) = n)

Str(s) == [kind |-> "str", chars |-> s]

truncate_name(name, max_len) ==
    IF ByteLen(name) > max_len
    THEN IF max_len < 3 \/ ~IsCharBoundary(name, max_len - 3)
         THEN Panic
         ELSE Str(BytePrefix(name, max_len - 3) \o <<".", ".", ".">>)
    ELSE Str(name)

----------------------------------------------------------------------------
(* Numbers *)

RoundDiv(n, d) ==
    LET q == n \div d
        r == n % d
    IN  IF 2 * r > d \/ (2 * r = d /\ q % 2 = 1) THEN q + 1 ELSE q

RECURSIVE UnitIndex(_, _)
UnitIndex(bytes, idx) ==
    IF bytes >= Kilo /\ idx < 4 THEN UnitIndex(bytes \div Kilo, idx + 1) ELSE idx

RECURSIVE Pow(_, _)
Pow(b, e) == IF e = 0 THEN 1 ELSE b * Pow(b, e - 1)

UNITS == <<"B", "KB", "MB", "GB", "TB">>

format_bytes(bytes) ==
    LET idx == UnitIndex(bytes, 0)
    IN  IF idx = 0
        THEN [whole |-> bytes, tenths |-> 0, unit |-> UNITS[1]]
        ELSE LET t == RoundDiv(bytes * 10, Pow(Kilo, idx))
             IN  [whole |-> t \div 10, tenths |-> t % 10, unit |-> UNITS[idx + 1]]

FDiv(a, b) ==
    IF b = 0
    THEN IF a = 0 THEN [kind |-> "nan", num |-> 0, den |-> 0]
                  ELSE [kind |-> "inf", num |-> a, den |-> 0]
    ELSE [kind |-> "num", num |-> a, den |-> b]

FMul100(x) == [x EXCEPT !.num = 100 * x.num]

AsU16(x) ==
    IF x.kind = "nan" THEN 0
    ELSE IF x.kind = "inf" THEN 65535
    ELSE IF x.num \div x.den > 65535 THEN 65535 ELSE x.num \div x.den

FmtOneDecimal(x) ==
    IF x.kind = "num"
    THEN [kind |-> "num", tenths |-> RoundDiv(10 * x.num, x.den)]
    ELSE [kind |-> x.kind, tenths |-> 0]

WrapSub(a, b, checks) ==
    IF a >= b THEN [kind |-> "u64", v |-> a - b]
    ELSE IF checks THEN Panic ELSE [kind |-> "u64", v |-> a - b + U64Mod]

WrapAdd(a, b, checks) ==
    IF a + b < U64Mod THEN [kind |-> "u64", v |-> a + b]
    ELSE IF checks THEN Panic ELSE [kind |-> "u64", v |-> (a + b) % U64Mod]

----------------------------------------------------------------------------
(* Gauges of the overview tab *)

Gauge(usage, used, total) ==
    IF AsU16(usage) > GaugeMax
    THEN Panic
    ELSE [kind |-> "gauge", percent |-> AsU16(usage),
          label |-> FmtOneDecimal(usage), ratio |-> usage,
          used |-> format_bytes(used), total |-> format_bytes(total)]

CpuGauge(sys) ==
    Gauge(FDiv(sys.global_cpu_usage, 1), 0, 0)

MemoryGauge(sys) ==
    LET memory_usage == FMul100(FDiv(sys.used_memory, sys.total_memory))
    IN  Gauge(memory_usage, sys.used_memory, sys.total_memory)

SwapColor(swap_usage) ==
    IF swap_usage.num > 50 * swap_usage.den THEN "Red"
    ELSE IF swap_usage.num > 10 * swap_usage.den THEN "Yellow"
    ELSE "Green"

SwapGauge(sys) ==
    IF sys.total_swap > 0
    THEN LET swap_usage == FMul100(FDiv(sys.used_swap, sys.total_swap))
             g == Gauge(swap_usage, sys.used_swap, sys.total_swap)
         IN  IF IsPanic(g) THEN Panic
             ELSE [g EXCEPT !.kind = "swap_gauge"] @@ [color |-> SwapColor(swap_usage)]
    ELSE [kind |-> "not_configured"]

----------------------------------------------------------------------------
(* Network panel *)

RECURSIVE NetSummaryFrom(_, _, _, _)
NetSummaryFrom(networks, i, acc, checks) ==
    IF IsPanic(acc) \/ i > Len(networks) THEN acc
    ELSE LET received == networks[i].received
             transmitted == networks[i].transmitted
         IN  IF received > 0 \/ transmitted > 0
             THEN LET rx == WrapAdd(acc.total_received, received, checks)
                      tx == WrapAdd(acc.total_transmitted, transmitted, checks)
                  IN  IF IsPanic(rx) \/ IsPanic(tx)
                      THEN NetSummaryFrom(networks, i + 1, Panic, checks)
                      ELSE NetSummaryFrom(networks, i + 1,
                               [kind |-> "summary",
                                total_received |-> rx.v,
                                total_transmitted |-> tx.v,
                                active_interfaces |-> acc.active_interfaces + 1],
                               checks)
             ELSE NetSummaryFrom(networks, i + 1, acc, checks)

get_network_summary(networks, checks) ==
    NetSummaryFrom(networks, 1,
                   [kind |-> "summary", total_received |-> 0,
                    total_transmitted |-> 0, active_interfaces |-> 0], checks)

RECURSIVE NetDetailFrom(_, _, _)
NetDetailFrom(networks, i, acc) ==
    IF IsPanic(acc) \/ i > Len(networks) THEN acc
    ELSE LET received == networks[i].received
             transmitted == networks[i].transmitted
         IN  IF (received > 0 \/ transmitted > 0) /\ Len(acc.lines) < MaxDetail
             THEN LET n == truncate_name(networks[i].name, IfaceNameMax)
                  IN  IF IsPanic(n) THEN Panic
                      ELSE NetDetailFrom(networks, i + 1,
                               [acc EXCEPT !.lines = Append(@,
                                   [name |-> n.chars,
                                    rx |-> format_bytes(received),
                                    tx |-> format_bytes(transmitted)])])
             ELSE NetDetailFrom(networks, i + 1, acc)

NetworkPanel(networks, checks) ==
    LET summary == get_network_summary(networks, checks)
        detail == NetDetailFrom(networks, 1, [kind |-> "detail", lines |-> <<>>])
    IN  IF IsPanic(summary) \/ IsPanic(detail) THEN Panic
        ELSE [kind |-> "network",
              interface_count |-> summary.active_interfaces,
              total_rx |-> format_bytes(summary.total_received),
              total_tx |-> format_bytes(summary.total_transmitted),
              lines |-> detail.lines]

----------------------------------------------------------------------------
(* Storage panel *)

RECURSIVE StorageFrom(_, _, _, _)
StorageFrom(disks, i, acc, checks) ==
    IF IsPanic(acc) \/ i > Len(disks) THEN acc
    ELSE LET total_space == disks[i].total_space
             available_space == disks[i].available_space
             used_space == WrapSub(total_space, available_space, checks)
         IN  IF IsPanic(used_space) THEN Panic
             ELSE IF total_space > 0
             THEN LET ts == WrapAdd(acc.total_storage, total_space, checks)
                      tu == WrapAdd(acc.total_used, used_space.v, checks)
                      n == truncate_name(disks[i].name, DiskNameMax)
                  IN  IF IsPanic(ts) \/ IsPanic(tu) THEN Panic
                      ELSE IF acc.disk_count + 1 <= MaxDetail
                      THEN IF IsPanic(n) THEN Panic
                           ELSE StorageFrom(disks, i + 1,
                                   [kind |-> "storage",
                                    total_storage |-> ts.v, total_used |-> tu.v,
                                    disk_count |-> acc.disk_count + 1,
                                    lines |-> Append(acc.lines,
                                       [name |-> n.chars,
                                        usage_percent |-> FmtOneDecimal(
                                            FMul100(FDiv(used_space.v, total_space))),
                                        used |-> format_bytes(used_space.v),
                                        total |-> format_bytes(total_space)])],
                                   checks)
                      ELSE StorageFrom(disks, i + 1,
                               [kind |-> "storage",
                                total_storage |-> ts.v, total_used |-> tu.v,
                                disk_count |-> acc.disk_count + 1,
                                lines |-> acc.lines],
                               checks)
             ELSE StorageFrom(disks, i + 1, acc, checks)

StoragePanel(disks, checks) ==
    LET acc == StorageFrom(disks, 1,
                   [kind |-> "storage", total_storage |-> 0, total_used |-> 0,
                    disk_count |-> 0, lines |-> <<>>], checks)
    IN  IF IsPanic(acc) THEN Panic
        ELSE [kind |-> "storage",
              has_summary |-> acc.total_storage > 0,
              disk_count |-> acc.disk_count,
              total_usage |-> IF acc.total_storage > 0
                              THEN FmtOneDecimal(
                                  FMul100(FDiv(acc.total_used, acc.total_storage)))
                              ELSE [kind |-> "none", tenths |-> 0],
              total_used |-> format_bytes(acc.total_used),
              total_storage |-> format_bytes(acc.total_storage),
              lines |-> acc.lines]

----------------------------------------------------------------------------
(* Stable sort, largest key first *)

KeyOf(x, key) ==
    IF key = "cpu_usage" THEN x.cpu_usage
    ELSE IF key = "memory" THEN x.memory
    ELSE x.size

RECURSIVE InsertDesc_Unstable(_, _, _)
InsertDesc_Unstable(sorted, x, key) ==
    IF sorted = <<>> THEN <<x>>
    ELSE IF KeyOf(x, key) >= KeyOf(Head(sorted), key)
         THEN <<x>> \o sorted
         ELSE <<Head(sorted)>> \o InsertDesc_Unstable(Tail(sorted), x, key)

RECURSIVE InsertDesc(_, _, _)
InsertDesc(sorted, x, key) ==
    IF sorted = <<>> THEN <<x>>
    ELSE IF KeyOf(x, key) > KeyOf(Head(sorted), key)
         THEN <<x>> \o sorted
         ELSE <<Head(sorted)>> \o InsertDesc(Tail(sorted), x, key)

RECURSIVE SortFrom(_, _, _, _)
SortFrom(s, i, acc, key) ==
    IF i > Len(s) THEN acc
    ELSE SortFrom(s, i + 1, InsertDesc(acc, s[i], key), key)

sort_by_desc(s, key) == SortFrom(s, 1, <<>>, key)

----------------------------------------------------------------------------
(* Directory size and the home directory lines *)

RECURSIVE SumFilesFrom_AnyType(_, _, _, _)
SumFilesFrom_AnyType(entries, i, total_size, checks) ==
    IF i > Len(entries) THEN [kind |-> "Ok", size |-> total_size]
    ELSE LET e == entries[i]
         IN  IF e.entry_ok /\ e.meta_ok
             THEN LET t == WrapAdd(total_size, e.len, checks)
                  IN  IF IsPanic(t) THEN Panic
                      ELSE SumFilesFrom_AnyType(entries, i + 1, t.v, checks)
             ELSE SumFilesFrom_AnyType(entries, i + 1, total_size, checks)

RECURSIVE SumFilesFrom(_, _, _, _)
SumFilesFrom(entries, i, total_size, checks) ==
    IF i > Len(entries) THEN [kind |-> "Ok", size |-> total_size]
    ELSE LET e == entries[i]
         IN  IF e.entry_ok /\ e.meta_ok /\ e.type = "file"
             THEN LET t == WrapAdd(total_size, e.len, checks)
                  IN  IF IsPanic(t) THEN Panic
                      ELSE SumFilesFrom(entries, i + 1, t.v, checks)
             ELSE SumFilesFrom(entries, i + 1, total_size, checks)

NoNode == [type |-> "missing", read_ok |-> FALSE, err |-> "NotFound", entries |-> <<>>]

Lookup(node, name) ==
    IF node.type = "dir"
       /\ \E i \in 1..Len(node.entries) :
              node.entries[i].name = name /\ node.entries[i].meta_ok
    THEN LET i == CHOOSE j \in 1..Len(node.entries) :
                     node.entries[j].name = name /\ node.entries[j].meta_ok
         IN  IF node.entries[i].type = "dir"
             THEN [type |-> "dir", read_ok |-> node.entries[i].sub_read_ok,
                   err |-> "PermissionDenied", entries |-> node.entries[i].sub]
             ELSE [type |-> node.entries[i].type, read_ok |-> FALSE,
                   err |-> "NotADirectory", entries |-> <<>>]
    ELSE NoNode

Path(base) == [base |-> base, rel |-> ""]

join(path, name) == [base |-> path.base, rel |-> name]

NodeAt(fs, path) ==
    IF path.rel = "" THEN fs.node ELSE Lookup(fs.node, path.rel)

is_dir(fs, path) == NodeAt(fs, path).type = "dir"

read_dir(fs, path) ==
    IF NodeAt(fs, path).read_ok
    THEN [kind |-> "Ok", entries |-> NodeAt(fs, path).entries]
    ELSE [kind |-> "Err", err |-> [error_kind |-> NodeAt(fs, path).err]]

calculate_directory_size_Swallow(fs, path, checks) ==
    IF ~is_dir(fs, path)
    THEN [kind |-> "Ok", size |-> 0]
    ELSE LET r == read_dir(fs, path)
         IN  IF r.kind = "Ok"
             THEN SumFilesFrom(r.entries, 1, 0, checks)
             ELSE [kind |-> "Ok", size |-> 0]

calculate_directory_size(fs, path, checks) ==
    IF ~is_dir(fs, path)
    THEN [kind |-> "Ok", size |-> 0]
    ELSE LET r == read_dir(fs, path)
         IN  IF r.kind = "Ok"
             THEN SumFilesFrom(r.entries, 1, 0, checks)
             ELSE [kind |-> "Err", err |-> r.err]

common_dirs == <<"Downloads", "Documents", "Pictures", "Videos", "Desktop", "Music">>

RECURSIVE DirSizesFrom(_, _, _, _, _)
DirSizesFrom(fs, home_dir, i, acc, checks) ==
    IF IsPanic(acc) \/ i > Len(common_dirs) THEN acc
    ELSE LET dir_path == join(home_dir, common_dirs[i])
         IN  IF is_dir(fs, dir_path)
             THEN LET r == calculate_directory_size(fs, dir_path, checks)
                  IN  IF IsPanic(r) THEN Panic
                      ELSE IF r.kind = "Ok" /\ r.size > 0
                      THEN DirSizesFrom(fs, home_dir, i + 1,
                               [acc EXCEPT !.dirs = Append(@,
                                   [dir_name |-> common_dirs[i], size |-> r.size])],
                               checks)
                      ELSE DirSizesFrom(fs, home_dir, i + 1, acc, checks)
             ELSE DirSizesFrom(fs, home_dir, i + 1, acc, checks)

FmtDir(d) == [dir_name |-> d.dir_name, size |-> format_bytes(d.size)]

HomePanel(fs, checks) ==
    IF fs.kind = "none"
    THEN [kind |-> "no_home"]
    ELSE LET home_dir == Path(fs.path)
             p == truncate_name(fs.path, HomePathMax)
             r == calculate_directory_size(fs, home_dir, checks)
         IN  IF IsPanic(p) \/ IsPanic(r) THEN Panic
             ELSE IF r.kind = "Ok"
             THEN LET ds == DirSizesFrom(fs, home_dir, 1,
                                [kind |-> "dirs", dirs |-> <<>>], checks)
                  IN  IF IsPanic(ds) THEN Panic
                      ELSE LET top == Take(sort_by_desc(ds.dirs, "size"), 2)
                           IN  [kind |-> "home", path |-> p.chars, scan |-> r,
                                size |-> format_bytes(r.size),
                                dirs |-> [i \in 1..Len(top) |-> FmtDir(top[i])]]
             ELSE [kind |-> "home_placeholder", path |-> p.chars, scan |-> r]

----------------------------------------------------------------------------
(* Processes tab *)

CpuCell(p) == FmtOneDecimal(FDiv(p.cpu_usage, 1))

MemCell(p) == format_bytes(p.memory)

RECURSIVE RowsFrom(_, _, _, _)
RowsFrom(procs, i, acc, key) ==
    IF IsPanic(acc) \/ i > Len(procs) THEN acc
    ELSE LET n == truncate_name(procs[i].name, ProcNameMax)
         IN  IF IsPanic(n) THEN Panic
             ELSE RowsFrom(procs, i + 1,
                      [acc EXCEPT !.rows = Append(@,
                          [pid |-> procs[i].pid, name |-> n.chars,
                           value |-> IF key = "cpu_usage" THEN CpuCell(procs[i])
                                     ELSE MemCell(procs[i])])],
                      key)

draw_processes_tab(a) ==
    LET cpu_processes == sort_by_desc(a.system.processes, "cpu_usage")
        cpu_rows == RowsFrom(Take(cpu_processes, TopN), 1,
                             [kind |-> "rows", rows |-> <<>>], "cpu_usage")
        mem_processes == sort_by_desc(a.system.processes, "memory")
        mem_rows == RowsFrom(Take(mem_processes, TopN), 1,
                             [kind |-> "rows", rows |-> <<>>], "memory")
    IN  IF IsPanic(cpu_rows) \/ IsPanic(mem_rows) THEN Panic
        ELSE [kind |-> "processes",
              cpu_rows |-> cpu_rows.rows, mem_rows |-> mem_rows.rows,
              stamps |-> [processes |-> a.system.stamp]]

----------------------------------------------------------------------------
(* Overview tab *)

NoTick == -1

Live(t) == [tick |-> NoTick, at |-> t]

draw_overview_tab(a, h, t, checks) ==
    LET cpu == CpuGauge(a.system)
        memory == MemoryGauge(a.system)
        swap == SwapGauge(a.system)
        network == NetworkPanel(a.networks.list, checks)
        storage == StoragePanel(a.disks.list, checks)
        homedir == HomePanel(h, checks)
    IN  IF IsPanic(cpu) \/ IsPanic(memory) \/ IsPanic(swap) THEN Panic
        ELSE IF IsPanic(network) THEN Panic
        ELSE IF IsPanic(storage) THEN Panic
        ELSE IF IsPanic(homedir) THEN Panic
        ELSE [kind |-> "overview",
              cpu |-> cpu, memory |-> memory, swap |-> swap,
              network |-> network, storage |-> storage, homedir |-> homedir,
              stamps |-> [cpu |-> a.system.stamp,
                          memory |-> a.system.stamp,
                          swap |-> a.system.stamp,
                          load_average |-> Live(t),
                          temperature |-> a.components.stamp,
                          uptime |-> Live(t),
                          disks |-> a.disks.stamp,
                          networks |-> a.networks.stamp]]

ui(a, h, tab, t, checks) ==
    IF tab = 0 THEN draw_overview_tab(a, h, t, checks)
    ELSE IF tab = 1 THEN draw_processes_tab(a)
    ELSE [kind |-> "empty"]

----------------------------------------------------------------------------
(* The provider's readings and the application state *)

Name(c, i) == <<c, ToString(i)>>

Proc(pid, cpu, mem) ==
    [pid |-> pid, name |-> Name("p", pid), cpu_usage |-> cpu, memory |-> mem]

Iface(i, rx, tx) == [name |-> Name("e", i), received |-> rx, transmitted |-> tx]

Disk(i, total, avail) ==
    [name |-> Name("d", i), total_space |-> total, available_space |-> avail]

Reading(cpu, tm, um, ts, us, procs, disks, nets) ==
    [global_cpu_usage |-> cpu, total_memory |-> tm, used_memory |-> um,
     total_swap |-> ts, used_swap |-> us, processes |-> procs,
     disks |-> disks, networks |-> nets]

DefaultReading ==
    Reading(10, 4, 2, 2, 1, <<Proc(1, 3, 1), Proc(2, 5, 2)>>,
            <<Disk(1, 4, 1)>>, <<Iface(1, 1, 2)>>)

BusyReading ==
    Reading(90, 4, 3, 0, 0, <<Proc(1, 7, 2), Proc(3, 7, 1)>>,
            <<Disk(1, 4, 0), Disk(2, 0, 0)>>, <<Iface(1, 3, 0), Iface(2, 0, 0)>>)

LoopReadings == {DefaultReading, BusyReading}

Sample(r, stamp) ==
    [system |-> [stamp |-> stamp,
                 global_cpu_usage |-> r.global_cpu_usage,
                 total_memory |-> r.total_memory, used_memory |-> r.used_memory,
                 total_swap |-> r.total_swap, used_swap |-> r.used_swap,
                 processes |-> r.processes],
     disks |-> [stamp |-> stamp, list |-> r.disks],
     components |-> [stamp |-> stamp],
     networks |-> [stamp |-> stamp, list |-> r.networks]]

File(name, len) ==
    [name |-> name, entry_ok |-> TRUE, meta_ok |-> TRUE, type |-> "file",
     len |-> len, sub_read_ok |-> FALSE, sub |-> <<>>]

Dir(name, readable, sizes) ==
    [name |-> name, entry_ok |-> TRUE, meta_ok |-> TRUE, type |-> "dir",
     len |-> 4, sub_read_ok |-> readable,
     sub |-> [i \in 1..Len(sizes) |-> File(ToString(i), sizes[i])]]

DirNode(entries) ==
    [type |-> "dir", read_ok |-> TRUE, err |-> "none", entries |-> entries]

UnreadableNode(e) ==
    [type |-> "dir", read_ok |-> FALSE, err |-> e, entries |-> <<>>]

HomePath == <<"/", "h">>

Home(node) == [kind |-> "path", path |-> HomePath, node |-> node]

NoHome == [kind |-> "none"]

LoopHomes ==
    {Home(DirNode(<<File("f", 3), Dir("Music", TRUE, <<2>>)>>)),
     Home(UnreadableNode("PermissionDenied"))}

NoFrame == [kind |-> "none"]

new(r) == Sample(r, [tick |-> 0, at |-> 0])

----------------------------------------------------------------------------
(* App::refresh, App::next_tab, App::previous_tab *)

ShouldRefresh_Millis(elapsed) == elapsed >= 1

ShouldRefresh(elapsed) == elapsed >= RefreshInterval

next_tab(t) == (t + 1) % TabCount

previous_tab_Wrap(t) == IF t > 0 THEN t - 1 ELSE TabCount

previous_tab(t) == IF t > 0 THEN t - 1 ELSE 1

Refresh_SkipDisks ==
    /\ pc = "refresh"
    /\ IF ShouldRefresh(now - last_update)
       THEN \E r \in LoopReadings, d \in 0..1 :
               /\ now + d <= MaxTime
               /\ app' = [Sample(r, [tick |-> Len(requeries) + 1, at |-> now])
                             EXCEPT !.disks = app.disks]
               /\ now' = now + d
               /\ last_update' = now + d
               /\ requeries' = Append(requeries, [start |-> now, end |-> now + d])
       ELSE UNCHANGED <<app, now, last_update, requeries>>
    /\ pc' = "draw"
    /\ UNCHANGED <<tab_index, res, last_event, home, frame, overflow_checks>>

Refresh ==
    /\ pc = "refresh"
    /\ IF ShouldRefresh(now - last_update)
       THEN \E r \in LoopReadings, d \in 0..1 :
               /\ now + d <= MaxTime
               /\ app' = Sample(r, [tick |-> Len(requeries) + 1, at |-> now])
               /\ now' = now + d
               /\ last_update' = now + d
               /\ requeries' = Append(requeries, [start |-> now, end |-> now + d])
       ELSE UNCHANGED <<app, now, last_update, requeries>>
    /\ pc' = "draw"
    /\ UNCHANGED <<tab_index, res, last_event, home, frame, overflow_checks>>

----------------------------------------------------------------------------
(* run_app *)

Draw ==
    /\ pc = "draw"
    /\ \E io_ok \in BOOLEAN, d \in 0..1 :
          /\ now + d <= MaxTime
          /\ now' = now + d
          /\ LET f == ui(app, home, tab_index, now, overflow_checks)
             IN  IF IsPanic(f)
                 THEN pc' = "done" /\ res' = "panic" /\ frame' = frame
                 ELSE IF ~io_ok
                 THEN pc' = "done" /\ res' = "Err" /\ frame' = frame
                 ELSE pc' = "poll" /\ res' = res /\ frame' = f
    /\ UNCHANGED <<last_update, tab_index, last_event, app, home, requeries,
                   overflow_checks>>

HomeChanges ==
    /\ pc = "draw"
    /\ \E h \in LoopHomes : h # home /\ home' = h
    /\ UNCHANGED <<pc, now, last_update, tab_index, res, last_event, app, frame,
                   requeries, overflow_checks>>

KeyCodes == {"q", "Right", "Tab", "Left", "Up"}

NonKeyEvents == {"Resize", "Mouse"}

OnKey_NoQuit(code, t) ==
    IF code = "Right" \/ code = "Tab" THEN [quit |-> FALSE, tab |-> next_tab(t)]
    ELSE IF code = "Left" THEN [quit |-> FALSE, tab |-> previous_tab(t)]
    ELSE [quit |-> FALSE, tab |-> t]

OnKey(code, t) ==
    IF code = "q" THEN [quit |-> TRUE, tab |-> t]
    ELSE IF code = "Right" \/ code = "Tab" THEN [quit |-> FALSE, tab |-> next_tab(t)]
    ELSE IF code = "Left" THEN [quit |-> FALSE, tab |-> previous_tab(t)]
    ELSE [quit |-> FALSE, tab |-> t]

PollTimesOut ==
    /\ pc = "poll"
    /\ now + PollTimeout <= MaxTime
    /\ now' = now + PollTimeout
    /\ last_event' = "timeout"
    /\ pc' = "refresh"
    /\ UNCHANGED <<last_update, tab_index, res, app, home, frame, requeries,
                   overflow_checks>>

PollFails ==
    /\ pc = "poll"
    /\ last_event' = "poll_error"
    /\ pc' = "done"
    /\ res' = "Err"
    /\ UNCHANGED <<now, last_update, tab_index, app, home, frame, requeries,
                   overflow_checks>>

ReadKey ==
    /\ pc = "poll"
    /\ \E code \in KeyCodes, d \in 0..PollTimeout :
          /\ now + d <= MaxTime
          /\ now' = now + d
          /\ last_event' = code
          /\ LET o == OnKey(code, tab_index)
             IN  /\ tab_index' = o.tab
                 /\ IF o.quit
                    THEN pc' = "done" /\ res' = "Ok"
                    ELSE pc' = "refresh" /\ res' = res
    /\ UNCHANGED <<last_update, app, home, frame, requeries, overflow_checks>>

ReadNonKey ==
    /\ pc = "poll"
    /\ \E ev \in NonKeyEvents, d \in 0..PollTimeout :
          /\ now + d <= MaxTime
          /\ now' = now + d
          /\ last_event' = ev
    /\ pc' = "refresh"
    /\ UNCHANGED <<last_update, tab_index, res, app, home, frame, requeries,
                   overflow_checks>>

ReadFails ==
    /\ pc = "poll"
    /\ last_event' = "read_error"
    /\ pc' = "done"
    /\ res' = "Err"
    /\ UNCHANGED <<now, last_update, tab_index, app, home, frame, requeries,
                   overflow_checks>>

Init ==
    /\ pc = "refresh"
    /\ now = 0
    /\ last_update = 0
    /\ tab_index = 0
    /\ res = "running"
    /\ last_event = "none"
    /\ app \in {new(r) : r \in LoopReadings}
    /\ home \in LoopHomes
    /\ frame = NoFrame
    /\ requeries = <<>>
    /\ overflow_checks \in BOOLEAN

Next ==
    \/ Refresh
    \/ Draw
    \/ HomeChanges
    \/ PollTimesOut
    \/ PollFails
    \/ ReadKey
    \/ ReadNonKey
    \/ ReadFails

Spec == Init /\ [][Next]_vars

----------------------------------------------------------------------------
(* One frame drawn from a given application state: the state of run_app    *)
(* at terminal.draw, on the overview tab before any key, on the processes  *)
(* tab after one Right key.                                                *)

DefaultHome == Home(DirNode(<<File("f", 3)>>))

DrawInit(a, h, tab) ==
    /\ pc = "draw"
    /\ now = 0
    /\ last_update = 0
    /\ tab_index = tab
    /\ res = "running"
    /\ last_event = IF tab = 0 THEN "none" ELSE "Right"
    /\ app = a
    /\ home = h
    /\ overflow_checks \in BOOLEAN
    /\ frame = IF tab = 0 THEN NoFrame ELSE ui(a, h, 0, 0, overflow_checks)
    /\ requeries = <<>>

WithMemory(tm, um, ts, us) ==
    Reading(10, tm, um, ts, us, DefaultReading.processes,
            DefaultReading.disks, DefaultReading.networks)

InitGauges ==
    \E tm \in 0..MaxMem, ts \in 0..MaxMem :
        \E um \in 0..tm, us \in 0..ts :
            DrawInit(new(WithMemory(tm, um, ts, us)), DefaultHome, 0)

SpecGauges == InitGauges /\ [][Draw]_vars

KeyPairs == (0..1) \X (0..1)

ProcsOf(pattern, n) ==
    [i \in 1..n |-> Proc(i, pattern[((i - 1) % Len(pattern)) + 1][1],
                            pattern[((i - 1) % Len(pattern)) + 1][2])]

WithProcesses(procs) ==
    Reading(10, 4, 2, 2, 1, procs, DefaultReading.disks, DefaultReading.networks)

InitProcesses ==
    \E k \in 1..MaxPattern, n \in 0..MaxProcs :
        \E pattern \in [1..k -> KeyPairs] :
            DrawInit(new(WithProcesses(ProcsOf(pattern, n))), DefaultHome, 1)

SpecProcesses == InitProcesses /\ [][Draw]_vars

EntryAt(i, k) ==
    IF k = 1 THEN File(ToString(i), 1)
    ELSE IF k = 2 THEN File(ToString(i), 2)
    ELSE IF k = 3 THEN [File(ToString(i), 2) EXCEPT !.entry_ok = FALSE]
    ELSE IF k = 4 THEN [File(ToString(i), 2) EXCEPT !.meta_ok = FALSE]
    ELSE IF k = 5 THEN Dir(common_dirs[i], TRUE, <<3>>)
    ELSE IF k = 6 THEN Dir(common_dirs[i], FALSE, <<>>)
    ELSE IF k = 7 THEN Dir(common_dirs[i], TRUE, <<5, 1>>)
    ELSE [File(ToString(i), 1) EXCEPT !.type = "other"]

EntryKinds == 1..8

Listing(ks) == [i \in 1..Len(ks) |-> EntryAt(i, ks[i])]

FileNode ==
    [type |-> "file", read_ok |-> FALSE, err |-> "NotADirectory", entries |-> <<>>]

OtherHomes ==
    {NoHome, Home(NoNode), Home(FileNode),
     Home(UnreadableNode("PermissionDenied")), Home(UnreadableNode("Other"))}

InitDirectory ==
    \/ \E h \in OtherHomes : DrawInit(new(DefaultReading), h, 0)
    \/ \E n \in 0..MaxEntries :
          \E ks \in [1..n -> EntryKinds] :
              DrawInit(new(DefaultReading), Home(DirNode(Listing(ks))), 0)

SpecDirectory == InitDirectory /\ [][Draw]_vars

NameChars == {"a", TwoByteChar}

WithIfaceName(n) ==
    Reading(10, 4, 2, 2, 1, DefaultReading.processes, DefaultReading.disks,
            <<[name |-> n, received |-> 1, transmitted |-> 0]>>)

WithDiskName(n) ==
    Reading(10, 4, 2, 2, 1, DefaultReading.processes,
            <<[name |-> n, total_space |-> 2, available_space |-> 1]>>,
            DefaultReading.networks)

InitNames ==
    \E k \in 0..MaxNameChars :
        \E n \in [1..k -> NameChars] :
            \/ DrawInit(new(WithIfaceName(n)), DefaultHome, 0)
            \/ DrawInit(new(WithDiskName(n)), DefaultHome, 0)

SpecNames == InitNames /\ [][Draw]_vars

IfaceShapes == {0, 1} \X {0, 2}

DiskShapes == {0, 2} \X {0, 1, 3}

IfaceList(t) == [i \in 1..Len(t) |-> Iface(i, t[i][1], t[i][2])]

DiskList(t) == [i \in 1..Len(t) |-> Disk(i, t[i][1], t[i][2])]

WithPanels(nets, disks) ==
    Reading(10, 4, 2, 2, 1, DefaultReading.processes, disks, nets)

InitPanels ==
    \/ \E n \in 0..MaxIfaces :
          \E t \in [1..n -> IfaceShapes] :
              DrawInit(new(WithPanels(IfaceList(t), DefaultReading.disks)),
                       DefaultHome, 0)
    \/ \E n \in 0..MaxDisks :
          \E t \in [1..n -> DiskShapes] :
              DrawInit(new(WithPanels(DefaultReading.networks, DiskList(t))),
                       DefaultHome, 0)

SpecPanels == InitPanels /\ [][Draw]_vars

----------------------------------------------------------------------------
(* Properties of the control loop *)

PollStep == pc = "poll" /\ pc' # "poll"

DrawStep == pc = "draw" /\ pc' # "draw"

(* C1: the provider is re-queried at most once per second: every re-query  *)
(* starts at least RefreshInterval after the end of the previous one, and  *)
(* the first one at least RefreshInterval after App::new (time 0).         *)
C1_RequeryGated ==
    \A i \in 1..Len(requeries) :
        requeries[i].start - (IF i = 1 THEN 0 ELSE requeries[i - 1].end)
            >= RefreshInterval

C1_Witness == Len(requeries) >= 2

(* C2 as stated: every value shown in a frame was sampled at one and the   *)
(* same tick (App::new or a gated re-query), none outside a tick.          *)
C2_OneTickPerFrame ==
    frame.kind \in {"overview", "processes"} =>
        \A m1, m2 \in DOMAIN frame.stamps :
            /\ frame.stamps[m1].tick # NoTick
            /\ frame.stamps[m1].tick = frame.stamps[m2].tick

LastSample ==
    IF requeries = <<>> THEN [tick |-> 0, at |-> 0]
    ELSE [tick |-> Len(requeries), at |-> requeries[Len(requeries)].start]

LiveMetrics == {"load_average", "uptime"}

(* C2 amended: the values a frame shows of CPU, memory, swap, temperature, *)
(* disks, network interfaces and processes all come from one sampling, the *)
(* latest one (App::new or the most recent gated re-query); the load       *)
(* averages and the uptime are read when the frame is drawn.               *)
C2_SampledMetricsOneTick ==
    [][ (DrawStep /\ pc' = "poll") =>
          \A m \in DOMAIN frame'.stamps :
              frame'.stamps[m] = IF m \in LiveMetrics THEN Live(now) ELSE LastSample
      ]_vars

C2_Witness ==
    /\ frame.kind = "overview"
    /\ frame.stamps.cpu.tick = 2
    /\ frame.stamps.disks.tick = 2
    /\ frame.stamps.uptime.at > frame.stamps.cpu.at

(* C3: reading the key q ends the loop in that step with Ok and nothing is *)
(* refreshed or drawn afterwards; any other key, a non-key event or a poll *)
(* timeout leaves the loop running and goes to the next iteration.         *)
C3_CooperativeQuit ==
    [][ /\ (PollStep /\ last_event' = "q") =>
              /\ pc' = "done" /\ res' = "Ok"
              /\ UNCHANGED <<frame, app, requeries, last_update>>
        /\ (PollStep /\ last_event' \in (KeyCodes \ {"q"}) \cup NonKeyEvents
                                         \cup {"timeout"}) =>
              /\ pc' = "refresh" /\ res' = "running"
        /\ (last_event = "q") => UNCHANGED <<pc, res, frame, app, requeries>>
      ]_vars

C3_Witness ==
    last_event = "q" /\ pc = "done" /\ res = "Ok" /\ Len(requeries) >= 1

(* C4: tab_index is always 0 or 1; Right, Tab and Left switch to the other *)
(* mode; every other event leaves tab_index unchanged.                     *)
C4_TwoModes ==
    /\ [](tab_index \in {0, 1})
    /\ [][ /\ (PollStep /\ last_event' \in {"Right", "Tab", "Left"}) =>
                  tab_index' = 1 - tab_index
           /\ ~(PollStep /\ last_event' \in {"Right", "Tab", "Left"}) =>
                  tab_index' = tab_index
         ]_vars

C4_Witness == tab_index = 1 /\ last_event = "Left"

(* C8 *)
HomeUnreadable == home.kind = "path" /\ home.node.type = "dir" /\ ~home.node.read_ok

HasPath(e, path) == "path" \in DOMAIN e /\ e.path = path

(* C8 as stated: when reading the home directory fails the scan returns an *)
(* error that carries the path, the overview shows the placeholder and the *)
(* loop goes on.                                                           *)
C8_ErrorCarriesPath ==
    (frame.kind = "overview" /\ frame.homedir.kind = "home_placeholder") =>
        /\ frame.homedir.scan.kind = "Err"
        /\ HasPath(frame.homedir.scan.err, HomePath)

(* C8 amended: when reading the home directory fails the scan returns the  *)
(* I/O error of read_dir as it is (its kind only, no path; not 0 and not a *)
(* partial sum), the overview shows the placeholder instead of a size, and *)
(* the draw does not end the loop unless the terminal write itself fails.  *)
C8_ScanErrorNotFatal ==
    [][ (DrawStep /\ tab_index = 0 /\ HomeUnreadable) =>
          /\ res' # "panic"
          /\ (res' # "Err") =>
                /\ pc' = "poll" /\ res' = "running"
                /\ frame'.kind = "overview"
                /\ frame'.homedir.kind = "home_placeholder"
                /\ frame'.homedir.scan =
                      [kind |-> "Err", err |-> [error_kind |-> home.node.err]]
      ]_vars

C8_Witness ==
    /\ frame.kind = "overview" /\ frame.homedir.kind = "home_placeholder"
    /\ pc = "draw" /\ res = "running" /\ Len(requeries) >= 1
    /\ frame.stamps.cpu.tick = 0

----------------------------------------------------------------------------
(* Properties of one drawn frame *)

Drawn == pc = "poll" /\ frame.kind = "overview"

IsPercentOf(g, used, total) ==
    /\ g.ratio.kind = "num"
    /\ g.ratio.num * total = 100 * used * g.ratio.den

(* C5: for memory and for swap a total of 0 shows the "not configured"     *)
(* sentinel and no percentage (never NaN or a division by zero); with a    *)
(* total T > 0 and 0 <= U <= T the percentage is 100*U/T.                  *)
C5_ZeroTotalSentinel ==
    Drawn =>
        /\ IF app.system.total_memory = 0
           THEN frame.memory.kind = "not_configured"
           ELSE /\ frame.memory.kind = "gauge"
                /\ IsPercentOf(frame.memory, app.system.used_memory,
                               app.system.total_memory)
        /\ IF app.system.total_swap = 0
           THEN frame.swap.kind = "not_configured"
           ELSE /\ frame.swap.kind = "swap_gauge"
                /\ IsPercentOf(frame.swap, app.system.used_swap,
                               app.system.total_swap)

Min(a, b) == IF a < b THEN a ELSE b

IndexOfPid(procs, pid) == CHOOSE j \in 1..Len(procs) : procs[j].pid = pid

RankedBy(rows, procs, key) ==
    /\ Len(rows) = Min(TopN, Len(procs))
    /\ \A i \in 1..Len(rows) :
          /\ \E j \in 1..Len(procs) : procs[j].pid = rows[i].pid
          /\ rows[i].name = procs[IndexOfPid(procs, rows[i].pid)].name
          /\ rows[i].value =
                IF key = "cpu_usage"
                THEN CpuCell(procs[IndexOfPid(procs, rows[i].pid)])
                ELSE MemCell(procs[IndexOfPid(procs, rows[i].pid)])
    /\ \A i, j \in 1..Len(rows) :
          i < j =>
            LET a == IndexOfPid(procs, rows[i].pid)
                b == IndexOfPid(procs, rows[j].pid)
            IN  /\ a # b
                /\ KeyOf(procs[a], key) >= KeyOf(procs[b], key)
                /\ KeyOf(procs[a], key) = KeyOf(procs[b], key) => a < b
    /\ \A j \in 1..Len(procs) :
          (\A i \in 1..Len(rows) : rows[i].pid # procs[j].pid) =>
            \A i \in 1..Len(rows) :
                LET a == IndexOfPid(procs, rows[i].pid)
                IN  /\ KeyOf(procs[a], key) >= KeyOf(procs[j], key)
                    /\ KeyOf(procs[a], key) = KeyOf(procs[j], key) => a < j

(* C6: the CPU and memory tables each hold min(15, process count) entries  *)
(* of the process collection, largest key first, entries with equal keys   *)
(* in the order of the collection, and drawing leaves the collection as it *)
(* was.                                                                    *)
C6_TopLists ==
    [][ (DrawStep /\ tab_index = 1) =>
          /\ app' = app
          /\ res' # "panic"
          /\ (pc' = "poll") =>
                /\ frame'.kind = "processes"
                /\ RankedBy(frame'.cpu_rows, app.system.processes, "cpu_usage")
                /\ RankedBy(frame'.mem_rows, app.system.processes, "memory")
      ]_vars

C6_Witness ==
    /\ pc = "poll" /\ frame.kind = "processes"
    /\ Len(app.system.processes) > TopN
    /\ Len(frame.cpu_rows) = TopN
    /\ \E i, j \in 1..TopN :
          /\ i < j
          /\ frame.cpu_rows[i].value = frame.cpu_rows[j].value
          /\ frame.mem_rows[1].value # frame.mem_rows[TopN].value

RECURSIVE SumLen(_, _)
SumLen(entries, S) ==
    IF S = {} THEN 0
    ELSE LET i == CHOOSE x \in S : TRUE
         IN  entries[i].len + SumLen(entries, S \ {i})

ReadableFiles(entries) ==
    {i \in 1..Len(entries) :
        entries[i].entry_ok /\ entries[i].meta_ok /\ entries[i].type = "file"}

(* C7: calculate_directory_size gives Ok(0) for a path that is missing or  *)
(* not a directory, and for a readable directory exactly the sum of the    *)
(* sizes of its immediate regular files with readable metadata;            *)
(* subdirectories count 0 and unreadable entries are skipped.              *)
C7_DirectorySize ==
    (Drawn /\ home.kind = "path") =>
        /\ home.node.type # "dir" =>
              /\ frame.homedir.kind = "home"
              /\ frame.homedir.scan = [kind |-> "Ok", size |-> 0]
        /\ (home.node.type = "dir" /\ home.node.read_ok) =>
              /\ frame.homedir.kind = "home"
              /\ frame.homedir.scan =
                    [kind |-> "Ok",
                     size |-> SumLen(home.node.entries,
                                     ReadableFiles(home.node.entries))]

C7_Witness ==
    /\ Drawn /\ home.kind = "path" /\ home.node.type = "dir" /\ home.node.read_ok
    /\ frame.homedir.scan.size = 2
    /\ \E i, j, k \in 1..Len(home.node.entries) :
          /\ ~home.node.entries[i].entry_ok
          /\ home.node.entries[j].type = "dir"
          /\ home.node.entries[j].sub # <<>>
          /\ home.node.entries[k].type = "file" /\ home.node.entries[k].meta_ok
          /\ home.node.entries[k].entry_ok

Ellipsis == <<".", ".", ".">>

Truncated(name, max_len) ==
    IF Len(name) > max_len
    THEN Take(name, max_len - 3) \o Ellipsis
    ELSE name

(* C9: truncate_name never panics, also on multi-byte names: a name longer *)
(* than max comes back as its first max-3 characters followed by the       *)
(* ellipsis, max characters in all; any other name comes back unchanged.   *)
C9_TruncateName ==
    /\ res # "panic"
    /\ Drawn =>
          /\ \A i \in 1..Len(frame.network.lines) :
                frame.network.lines[i].name =
                    Truncated(app.networks.list[i].name, IfaceNameMax)
          /\ \A i \in 1..Len(frame.storage.lines) :
                frame.storage.lines[i].name =
                    Truncated(app.disks.list[i].name, DiskNameMax)

Active(n) == n.received > 0 \/ n.transmitted > 0

Mounted(dk) == dk.total_space > 0

RECURSIVE SumOf(_, _)
SumOf(s, field) ==
    IF s = <<>> THEN 0
    ELSE (IF field = "received" THEN Head(s).received
          ELSE IF field = "transmitted" THEN Head(s).transmitted
          ELSE IF field = "total_space" THEN Head(s).total_space
          ELSE Head(s).total_space - Head(s).available_space)
         + SumOf(Tail(s), field)

NetLine(n) ==
    [name |-> Truncated(n.name, IfaceNameMax),
     rx |-> format_bytes(n.received), tx |-> format_bytes(n.transmitted)]

DiskLine(dk) ==
    [name |-> Truncated(dk.name, DiskNameMax),
     usage_percent |-> FmtOneDecimal(
         FMul100(FDiv(dk.total_space - dk.available_space, dk.total_space))),
     used |-> format_bytes(dk.total_space - dk.available_space),
     total |-> format_bytes(dk.total_space)]

(* C10: for every list of interfaces and disks the summary totals are the  *)
(* sums over all qualifying entries and the detail lines are the first     *)
(* min(4, k) of the k qualifying entries, in the provider's order.         *)
C10_TotalsAndDetails ==
    /\ res # "panic"
    /\ Drawn =>
          LET nets == SelectSeq(app.networks.list, Active)
              dks == SelectSeq(app.disks.list, Mounted)
          IN  /\ frame.network.interface_count = Len(nets)
              /\ frame.network.total_rx = format_bytes(SumOf(nets, "received"))
              /\ frame.network.total_tx = format_bytes(SumOf(nets, "transmitted"))
              /\ frame.network.lines =
                    [i \in 1..Min(MaxDetail, Len(nets)) |-> NetLine(nets[i])]
              /\ frame.storage.disk_count = Len(dks)
              /\ frame.storage.has_summary = (Len(dks) > 0)
              /\ frame.storage.total_storage =
                    format_bytes(SumOf(dks, "total_space"))
              /\ frame.storage.total_used = format_bytes(SumOf(dks, "used"))
              /\ frame.storage.lines =
                    [i \in 1..Min(MaxDetail, Len(dks)) |-> DiskLine(dks[i])]

UsedSpace(dk) == WrapSub(dk.total_space, dk.available_space, overflow_checks)

(* C11: for every disk the provider returns, entries with total space 0    *)
(* and entries whose available space exceeds the total space included,     *)
(* total_space - available_space does not underflow: drawing the overview  *)
(* does not panic and the used space of every disk is in 0..total_space.   *)
C11_UsedSpaceInRange ==
    /\ res # "panic"
    /\ Drawn =>
          \A i \in 1..Len(app.disks.list) :
              /\ ~IsPanic(UsedSpace(app.disks.list[i]))
              /\ UsedSpace(app.disks.list[i]).v <= app.disks.list[i].total_space

====
